---------------------------- MODULE Spec2Model ----------------------------
(***************************************************************************)
(* A model of the supybot Git plugin (src/plugin.py): the Repository       *)
(* trackers with their re-entrant locks, cursors (commit_by_branch) and    *)
(* error queues, the GitFetcher thread, the scheduled _poll cycle of the   *)
(* main thread, and an on-demand command thread.                           *)
(*                                                                         *)
(* Commits of a branch are numbered 0, 1, 2, ... along its (linear)        *)
(* history; a head or a cursor is the number of a commit.  The registry is *)
(* the one built by _read_config at plugin start; every repository was     *)
(* cloned then, so every cursor starts at the head of its branch.          *)
(***************************************************************************)
EXTENDS Integers, Sequences, FiniteSets, TLC

\* ------------------------------------------------------------------ bounds
\* Number of commits pushed to the remotes in a run.
MaxCommits == 2

\* Length of the longest batch of commits handed to _display_commits in a
\* call of its own; maxCommitsAtOnce is tried from 0 to one more.
MaxBatch == 3

\* ----------------------------------------------------------- configuration
\* self.repository_list, in the order of the sections of the ini file.
repository_list == <<"r1", "r2">>

Repos == {repository_list[i] : i \in 1..Len(repository_list)}

\* self.branches of each repository, as resolved by clone().
branches(r) == IF r = "r1" THEN <<"master", "dev">> ELSE <<"master">>

BranchSet(r) == {branches(r)[i] : i \in 1..Len(branches(r))}

\* The (irc, channel) pairs of the channels a repository is configured for
\* (self.channels), in the order in which _poll builds its targets list.
channels(r) == IF r = "r1" THEN <<"t1", "t2">> ELSE <<"t1">>

Targets == UNION {{channels(r)[i] : i \in 1..Len(channels(r))} : r \in Repos}

\* The exceptions fetch() raises in a run: on each repository the first
\* failure raises the first of them, the next failure the next.
Exceptions == <<"e1", "e2">>

\* The threads that take repository locks.
Threads == {"poll", "fetcher", "cmd"}

VARIABLES
    pollPeriod,             \* registryValue('pollPeriod')
    remote,                 \* remote[r][b]: head of branch b at the url of r
    mirror,                 \* mirror[r][b]: head of branch b in the local copy
    commit_by_branch,       \* Repository.commit_by_branch: the cursors
    errors,                 \* Repository.errors
    lock,                   \* owner of Repository.lock, or "none"
    pollPc,                 \* position of the main thread in _poll
    pollIdx,                \* index of _poll's for loop in repository_list
    targets,                \* _poll's targets list for the current repository
    pollT,                  \* index of the display loop in targets
    new_commits_by_branch,  \* _poll's local: the new commits of each branch
    scheduled,              \* a poll event is pending in supybot.schedule
    fPc,                    \* position of the GitFetcher thread in run()
    fIdx,                   \* index of run()'s for loop in repository_list
    end_time,               \* which deadline run() waits for
    due,                    \* time.time() >= end_time
    cmd,                    \* repository whose lock the command thread holds
    nextErr,                \* number of exceptions raised by fetch() so far
    recorded,               \* history: errors passed to record_error
    drained,                \* history: errors returned by get_errors
    sent,                   \* history: sent[t][r][b], the commits shown to t
    shutdown,               \* GitFetcher.shutdown
    stopPc,                 \* position of the caller of die() in _stop_polling
    call,                   \* the operation called last: inputs and results
    reply,                  \* the messages that operation queued, in order
    fetcher,                \* self.fetcher: a thread's number, 0 for None
    swept,                  \* swept[i]: the registry thread number i sweeps
    orphans,                \* live GitFetcher threads other than the newest
    rehashPc,               \* position of the thread that runs rehash
    joined,                 \* joined[c]: the thread caller c called join() on
    generation              \* number of registries _read_config has built

vars == <<pollPeriod, remote, mirror, commit_by_branch, errors, lock, pollPc,
          pollIdx, targets, pollT, new_commits_by_branch, scheduled, fPc,
          fIdx, end_time, due, cmd, nextErr, recorded, drained, sent,
          shutdown, stopPc, call, reply, fetcher, swept, orphans, rehashPc,
          joined, generation>>

pollVars == <<pollPc, pollIdx, targets, pollT, new_commits_by_branch,
              scheduled>>

fetcherVars == <<fPc, fIdx, end_time, due>>

histVars == <<nextErr, recorded, drained, sent>>

stopVars == <<shutdown, stopPc>>

callVars == <<call, reply>>

rehashVars == <<fetcher, swept, orphans, rehashPc, joined, generation>>

\* The repository the for loop of _poll is at.
PollRepo == repository_list[pollIdx]

\* The repository the for loop of GitFetcher.run is at.
FetchRepo == repository_list[fIdx]

\* Mutant of _get_commits: the range includes its first commit.
_get_commits_inclusive(first, last) == first..last

\* The commits first..last of a branch, exclusive of first: "first..last".
_get_commits(first, last) == (first + 1)..last


\* --------------------------------------------------------------- the lock
\* Mutant of TryAcquire: an acquire that never looks at the owner.
TryAcquireUnchecked(r, t) == TRUE

\* threading.RLock.acquire(blocking=False) by thread t: succeeds when the
\* lock is free or already owned by t.
TryAcquire(r, t) == lock[r] \in {"none", t}

\* Mutant of synchronized: a plain Lock, the owner blocks on its own lock.
synchronized_not_reentrant(r, t) == lock[r] = "none"

\* The synchronized decorator: a blocking acquire of self.lock around the
\* method; thread t gets in when the lock is free or its own (re-entrant),
\* and leaves the ownership as it found it.
synchronized(r, t) == lock[r] \in {"none", t}

\* --------------------------------------------------- Repository's methods
\* Python's None, as get_commit returns it; no commit has this number.
None == -1

\* Mutant of get_commit: the name never resolves.
get_commit_unresolved(r, b) == None

\* get_commit(branch): the commit the branch points at in the local copy,
\* None when the name does not resolve there.
get_commit(r, b) == IF b \in DOMAIN mirror[r] THEN mirror[r][b] ELSE None

\* get_new_commits(): for every branch with a cursor, the commits
\* cursor..branch of the local copy.
get_new_commits(r) ==
    [b \in DOMAIN commit_by_branch[r] |->
        _get_commits(commit_by_branch[r][b], mirror[r][b])]

\* Mutant of record_error: the newest error goes to the front.
record_error_in_front(q, e) == <<e>> \o q

\* record_error(e): self.errors.append(e).
record_error(q, e) == Append(q, e)

\* Mutant of get_errors: the queue is returned and not cleared.
get_errors_uncleared(q) == [result |-> q, errors |-> q]

\* get_errors(): returns self.errors and leaves self.errors = [].
get_errors(q) == [result |-> q, errors |-> <<>>]

\* Mutant of fetch: a branch that is up to date is set back to its first
\* commit.
fetch_rewinding(r, k) ==
    [b \in BranchSet(r) |->
        IF mirror[r][b] = remote[r][b] THEN 0 ELSE remote[r][b]]

\* fetch() updates the branches of self.branches in order; when it raises
\* after k branches, only the first k heads of the local copy have moved.
fetch(r, k) ==
    [b \in BranchSet(r) |->
        IF \E i \in 1..k : branches(r)[i] = b THEN remote[r][b]
                                              ELSE mirror[r][b]]

\* ------------------------------------------------------------------- Init
\* The state after Git.__init__: _read_config has cloned every repository
\* (cursor = head of the local copy = head of the remote), and
\* _schedule_next_event has started the GitFetcher and scheduled the first
\* poll event when pollPeriod > 0.
PeriodValues == {0, 1}

Init ==
    /\ pollPeriod \in PeriodValues
    /\ remote = [r \in Repos |-> [b \in BranchSet(r) |-> 0]]
    /\ mirror = [r \in Repos |-> [b \in BranchSet(r) |-> 0]]
    /\ commit_by_branch = [r \in Repos |-> [b \in BranchSet(r) |-> 0]]
    /\ errors = [r \in Repos |-> <<>>]
    /\ lock = [r \in Repos |-> "none"]
    /\ pollPc = "idle"
    /\ pollIdx = 1
    /\ targets = <<>>
    /\ pollT = 1
    /\ new_commits_by_branch = <<>>
    /\ scheduled = (pollPeriod > 0)
    /\ fPc = IF pollPeriod > 0 THEN "sweep" ELSE "none"
    /\ fIdx = 1
    /\ end_time = "half"
    /\ due = FALSE
    /\ cmd = "none"
    /\ nextErr = 0
    /\ recorded = [r \in Repos |-> <<>>]
    /\ drained = [r \in Repos |-> <<>>]
    /\ sent = [t \in Targets |-> [r \in Repos |-> [b \in BranchSet(r) |->
                  {}]]]
    /\ shutdown = FALSE
    /\ stopPc = "none"
    /\ call = [op |-> "none"]
    /\ reply = <<>>
    /\ fetcher = IF pollPeriod > 0 THEN 1 ELSE 0
    /\ swept = IF pollPeriod > 0 THEN <<1>> ELSE <<>>
    /\ orphans = {}
    /\ rehashPc = "none"
    /\ joined = [c \in {"rehash", "die"} |-> 0]
    /\ generation = 1

\* ------------------------------------------------------------ environment
\* The number of commits pushed so far: the sum of the remote heads.
RECURSIVE SumHeads(_)
SumHeads(rbs) ==
    IF rbs = {} THEN 0
    ELSE LET rb == CHOOSE x \in rbs : TRUE
         IN  remote[rb[1]][rb[2]] + SumHeads(rbs \ {rb})

Pushed == SumHeads({rb \in Repos \X UNION {BranchSet(r) : r \in Repos} :
                       rb[2] \in BranchSet(rb[1])})

\* A commit is pushed to branch b of the remote of r.
Push(r, b) ==
    /\ Pushed < MaxCommits
    /\ remote' = [remote EXCEPT ![r][b] = @ + 1]
    /\ UNCHANGED <<stopVars, callVars, rehashVars>>
    /\ UNCHANGED <<pollPeriod, mirror, commit_by_branch, errors, lock, cmd>>
    /\ UNCHANGED <<pollVars, fetcherVars, histVars>>

\* Time passes and reaches the deadline the fetcher waits for.  Nothing
\* reads the clock but the wait loop, so after the first deadline time
\* passes only there.
Tick ==
    /\ fPc \notin {"none", "hung", "done"}
    /\ end_time = "half" \/ fPc = "wait"
    /\ ~due
    /\ due' = TRUE
    /\ UNCHANGED <<stopVars, callVars, rehashVars>>
    /\ UNCHANGED <<pollPeriod, remote, mirror, commit_by_branch, errors,
                   lock, cmd, fPc, fIdx, end_time>>
    /\ UNCHANGED <<pollVars, histVars>>


\* ------------------------------------------------------------ the display
\* registryValue('maxCommitsAtOnce'), at its default.
maxCommitsAtOnce == 5

\* The API of the installed GitPython: 0.3.x, which is also what
\* init_git_python falls back to.
GIT_API_VERSION == 3

\* _display_some_commits shows commits[-commits_at_once:], the last
\* commits_at_once entries of the batch (the whole batch when it is 0):
\* the newest ones of a batch listed oldest first (API 0.1.x), the oldest
\* ones of a batch listed newest first (API 0.3.x).
_display_some_commits(commits) ==
    IF maxCommitsAtOnce = 0 THEN commits
    ELSE IF GIT_API_VERSION = 1
         THEN {c \in commits :
                  Cardinality({d \in commits : d > c}) < maxCommitsAtOnce}
         ELSE {c \in commits :
                  Cardinality({d \in commits : d < c}) < maxCommitsAtOnce}

\* _display_commits(irc, channel, repository, commits_by_branch): the
\* commits shown to target t, branch by branch.
_display_commits(t, r, commits_by_branch) ==
    [b \in DOMAIN commits_by_branch |->
        _display_some_commits(commits_by_branch[b])]

\* The lists of (irc, channel) pairs _poll can find eligible for r: when the
\* cycle looks, the bot is in the channels of the repository or it is not.
TargetLists(r) == {<<>>, channels(r)}

\* ------------------------------------------------- _schedule_next_event
\* Thread number i has terminated: the newest thread when run() has ended,
\* an older one unless it was still alive when the next was started.
Terminated(i) == IF i = Len(swept) THEN fPc = "done" ELSE i \notin orphans

\* self.fetcher = GitFetcher(self.repository_list, period) and
\* self.fetcher.start(): a new thread on the current registry.  A thread
\* still alive at that moment lives on, unreferenced; a lock it holds is
\* its own.
StartFetcher ==
    /\ swept' = Append(swept, generation)
    /\ fetcher' = Len(swept) + 1
    /\ orphans' = IF fPc \in {"none", "done"} THEN orphans
                  ELSE orphans \cup {Len(swept)}
    /\ lock' = [r \in Repos |->
                   IF lock[r] = "fetcher" THEN "orphan" ELSE lock[r]]
    /\ fPc' = "sweep"
    /\ fIdx' = 1
    /\ end_time' = "half"
    /\ due' = FALSE
    /\ shutdown' = FALSE

\* schedule.addEvent(self._poll, ..., name=self.name()): the schedule holds
\* at most one event of a name, a second one fails its assertion.
addEvent(events) ==
    IF events THEN [raised |-> TRUE, events |-> TRUE]
    ELSE [raised |-> FALSE, events |-> TRUE]

\* _schedule_next_event() with pollPeriod > 0: a GitFetcher is started
\* unless self.fetcher is set and alive, then the poll event is added.
ScheduleNextEvent ==
    /\ IF fetcher = 0 \/ Terminated(fetcher)
       THEN StartFetcher
       ELSE UNCHANGED <<swept, fetcher, orphans, lock, fetcherVars, shutdown>>
    /\ scheduled' = addEvent(scheduled).events

\* ------------------------------------------------------------------ _poll
\* Mutant of PollFire: the event stays in the schedule when it is run.
PollFireKeepingEvent ==
    /\ pollPc = "idle"
    /\ stopPc # "join"
    /\ scheduled
    /\ pollPc' = "loop"
    /\ pollIdx' = 1
    /\ UNCHANGED <<targets, pollT, new_commits_by_branch, scheduled>>
    /\ UNCHANGED <<stopVars, callVars, rehashVars>>
    /\ UNCHANGED <<pollPeriod, remote, mirror, commit_by_branch, errors,
                   lock, cmd>>
    /\ UNCHANGED <<fetcherVars, histVars>>

\* supybot.schedule runs the pending poll event (and forgets it); the main
\* thread is free to do so unless it waits inside _stop_polling.
PollFire ==
    /\ pollPc = "idle"
    /\ stopPc # "join"
    /\ scheduled
    /\ scheduled' = FALSE
    /\ pollPc' = "loop"
    /\ pollIdx' = 1
    /\ UNCHANGED <<targets, pollT, new_commits_by_branch>>
    /\ UNCHANGED <<stopVars, callVars, rehashVars>>
    /\ UNCHANGED <<pollPeriod, remote, mirror, commit_by_branch, errors,
                   lock, cmd>>
    /\ UNCHANGED <<fetcherVars, histVars>>

\* What every step of _poll leaves alone.
PollFrame == UNCHANGED <<pollPeriod, remote, mirror, cmd, fetcherVars,
                         nextErr, recorded, stopVars, callVars, rehashVars>>

\* The for loop goes on with the next repository.
PollContinue ==
    /\ pollPc' = "loop"
    /\ pollIdx' = pollIdx + 1
    /\ targets' = <<>>
    /\ pollT' = 1
    /\ new_commits_by_branch' = <<>>

\* Mutant of PollSkip: the skipped repository's error queue is drained.
PollSkipDraining ==
    /\ pollPc = "loop"
    /\ pollIdx <= Len(repository_list)
    /\ PollContinue
    /\ PollFrame
    /\ errors' = [errors EXCEPT ![PollRepo] = <<>>]
    /\ drained' = [drained EXCEPT ![PollRepo] = @ \o errors[PollRepo]]
    /\ UNCHANGED <<commit_by_branch, lock, scheduled, sent>>

\* "if not targets: ... continue".
PollSkip ==
    /\ pollPc = "loop"
    /\ pollIdx <= Len(repository_list)
    /\ PollContinue
    /\ PollFrame
    /\ UNCHANGED <<commit_by_branch, errors, lock, scheduled, drained, sent>>

\* repository.lock.acquire(blocking=False) returns True; then
\* errors = repository.get_errors(), each error logged.
PollAcquire ==
    /\ pollPc = "loop"
    /\ pollIdx <= Len(repository_list)
    /\ \E tl \in TargetLists(PollRepo) \ {<<>>} : targets' = tl
    /\ TryAcquire(PollRepo, "poll")
    /\ lock' = [lock EXCEPT ![PollRepo] = "poll"]
    /\ LET got == get_errors(errors[PollRepo])
       IN  /\ errors' = [errors EXCEPT ![PollRepo] = got.errors]
           /\ drained' = [drained EXCEPT ![PollRepo] = @ \o got.result]
    /\ pollPc' = "get_new_commits"
    /\ PollFrame
    /\ UNCHANGED <<pollIdx, pollT, new_commits_by_branch, scheduled,
                   commit_by_branch, sent>>

\* Mutant of PollPostpone: a blocking acquire, the main thread waits.
PollWaitsForLock == FALSE /\ UNCHANGED vars

\* repository.lock.acquire(blocking=False) returns False: "Postponing
\* repository read", and the loop goes on.
PollPostpone ==
    /\ pollPc = "loop"
    /\ pollIdx <= Len(repository_list)
    /\ ~TryAcquire(PollRepo, "poll")
    /\ PollContinue
    /\ PollFrame
    /\ UNCHANGED <<commit_by_branch, errors, lock, scheduled, drained, sent>>

\* new_commits_by_branch = repository.get_new_commits().
PollGetNewCommits ==
    /\ pollPc = "get_new_commits"
    /\ synchronized(PollRepo, "poll")
    /\ new_commits_by_branch' = get_new_commits(PollRepo)
    /\ pollPc' = "display"
    /\ pollT' = 1
    /\ PollFrame
    /\ UNCHANGED <<pollIdx, targets, scheduled, commit_by_branch, errors,
                   lock, drained, sent>>

\* "except Exception, e: log_error(...)" then "finally:
\* repository.lock.release()": the rest of the try block is skipped.
PollExcept ==
    /\ lock' = [lock EXCEPT ![PollRepo] = "none"]
    /\ PollContinue
    /\ PollFrame
    /\ UNCHANGED <<commit_by_branch, errors, scheduled, drained, sent>>

\* get_new_commits() raises (git fails on a range).
PollDiffError ==
    /\ pollPc = "get_new_commits"
    /\ synchronized(PollRepo, "poll")
    /\ PollExcept

\* self._display_commits(irc, channel, ...) for the next target.
PollDisplay ==
    /\ pollPc = "display"
    /\ pollT <= Len(targets)
    /\ synchronized(PollRepo, "poll")
    /\ LET shown == _display_commits(targets[pollT], PollRepo,
                                      new_commits_by_branch)
       IN  sent' = [sent EXCEPT ![targets[pollT]][PollRepo] =
                       [b \in DOMAIN @ |->
                           IF b \in DOMAIN shown THEN @[b] \cup shown[b]
                                                 ELSE @[b]]]
    /\ pollT' = pollT + 1
    /\ PollFrame
    /\ UNCHANGED <<pollPc, pollIdx, targets, new_commits_by_branch,
                   scheduled, commit_by_branch, errors, lock, drained>>

\* _display_commits raises for the next target, before anything is queued
\* for it.
PollDisplayError ==
    /\ pollPc = "display"
    /\ pollT <= Len(targets)
    /\ PollExcept

\* "for branch in new_commits_by_branch: repository.commit_by_branch[branch]
\* = repository.get_commit(branch)", then "finally: lock.release()".
PollAdvance ==
    /\ pollPc = "display"
    /\ pollT > Len(targets)
    /\ synchronized(PollRepo, "poll")
    /\ commit_by_branch' = [commit_by_branch EXCEPT ![PollRepo] =
           [b \in DOMAIN @ |->
               IF b \in DOMAIN new_commits_by_branch
               THEN get_commit(PollRepo, b) ELSE @[b]]]
    /\ lock' = [lock EXCEPT ![PollRepo] = "none"]
    /\ PollContinue
    /\ PollFrame
    /\ UNCHANGED <<errors, scheduled, drained, sent>>

\* After the loop: self._schedule_next_event() with pollPeriod > 0; an
\* exception of addEvent is caught and logged by _poll.
PollSchedule ==
    /\ pollPc = "loop"
    /\ pollIdx > Len(repository_list)
    /\ pollPeriod > 0
    /\ ScheduleNextEvent
    /\ pollPc' = "idle"
    /\ pollIdx' = 1
    /\ UNCHANGED <<pollPeriod, remote, mirror, cmd, nextErr, recorded,
                   stopPc, callVars, rehashPc, joined, generation>>
    /\ UNCHANGED <<targets, pollT, new_commits_by_branch, commit_by_branch,
                   errors, drained, sent>>

\* An exception outside the inner try (finding the targets, logging,
\* _schedule_next_event itself): "except Exception, e: log_error(...)" ends
\* _poll without a call of _schedule_next_event.
PollCrash ==
    /\ pollPc = "loop"
    /\ pollPc' = "idle"
    /\ pollIdx' = 1
    /\ PollFrame
    /\ UNCHANGED <<targets, pollT, new_commits_by_branch, scheduled,
                   commit_by_branch, errors, lock, drained, sent>>

PollNext ==
    \/ PollFire
    \/ PollSkip
    \/ PollAcquire
    \/ PollPostpone
    \/ PollGetNewCommits
    \/ PollDiffError
    \/ PollDisplay
    \/ PollDisplayError
    \/ PollAdvance
    \/ PollSchedule
    \/ PollCrash


\* --------------------------------------------------------- GitFetcher.run
\* What every step of the fetcher leaves alone.
FetchFrame == UNCHANGED <<pollPeriod, remote, commit_by_branch, cmd,
                          pollVars, drained, sent, stopVars, callVars,
                          rehashVars>>

\* "if self.shutdown: break" does not break;
\* repository.lock.acquire(blocking=False) returns True; repository.fetch()
\* is entered.
FetchAcquire ==
    /\ fPc = "sweep"
    /\ fIdx <= Len(repository_list)
    /\ ~shutdown
    /\ TryAcquire(FetchRepo, "fetcher")
    /\ lock' = [lock EXCEPT ![FetchRepo] = "fetcher"]
    /\ fPc' = "fetch"
    /\ FetchFrame
    /\ UNCHANGED <<mirror, errors, fIdx, end_time, due, nextErr, recorded>>

\* repository.lock.acquire(blocking=False) returns False: "Postponing
\* repository fetch", and the sweep goes on.
FetchPostpone ==
    /\ fPc = "sweep"
    /\ fIdx <= Len(repository_list)
    /\ ~shutdown
    /\ ~TryAcquire(FetchRepo, "fetcher")
    /\ fIdx' = fIdx + 1
    /\ FetchFrame
    /\ UNCHANGED <<mirror, errors, lock, fPc, end_time, due, nextErr,
                   recorded>>

\* repository.fetch() returns: every branch of self.branches is at the head
\* of the remote; "finally: repository.lock.release()".
FetchReturn ==
    /\ fPc = "fetch"
    /\ synchronized(FetchRepo, "fetcher")
    /\ mirror' = [mirror EXCEPT ![FetchRepo] =
                      fetch(FetchRepo, Len(branches(FetchRepo)))]
    /\ lock' = [lock EXCEPT ![FetchRepo] = "none"]
    /\ fPc' = "sweep"
    /\ fIdx' = fIdx + 1
    /\ FetchFrame
    /\ UNCHANGED <<errors, end_time, due, nextErr, recorded>>

\* Mutant of FetchExcept: the exception is swallowed.
FetchExceptSwallowed(q, e) == q

\* The exception handler of the sweep: "except Exception, e:
\* repository.record_error(e)".
FetchExcept(q, e) == record_error(q, e)

\* repository.fetch() raises after k branches: the handler records the
\* exception; "finally: repository.lock.release()".
FetchRaise ==
    /\ fPc = "fetch"
    /\ synchronized(FetchRepo, "fetcher")
    /\ nextErr < Len(Exceptions)
    /\ nextErr' = nextErr + 1
    /\ \E k \in 0..(Len(branches(FetchRepo)) - 1) :
           mirror' = [mirror EXCEPT ![FetchRepo] = fetch(FetchRepo, k)]
    /\ LET e == Exceptions[Len(recorded[FetchRepo]) + 1]
       IN  /\ errors' = [errors EXCEPT ![FetchRepo] = FetchExcept(@, e)]
           /\ recorded' = [recorded EXCEPT ![FetchRepo] = Append(@, e)]
    /\ lock' = [lock EXCEPT ![FetchRepo] = "none"]
    /\ fPc' = "sweep"
    /\ fIdx' = fIdx + 1
    /\ FetchFrame
    /\ UNCHANGED <<end_time, due>>

\* repository.fetch() never returns (git hangs on the network): the thread
\* stays inside fetch(), the lock stays taken.
FetchHang ==
    /\ fPc = "fetch"
    /\ fPc' = "hung"
    /\ FetchFrame
    /\ UNCHANGED <<mirror, errors, lock, fIdx, end_time, due, nextErr,
                   recorded>>

\* An exception in the sweep outside the inner try: "except Exception, e:
\* log_error(...)" ends the sweep; the thread goes on to its wait.
SweepError ==
    /\ fPc = "sweep"
    /\ fIdx <= Len(repository_list)
    /\ fPc' = "wait"
    /\ fIdx' = 1
    /\ FetchFrame
    /\ UNCHANGED <<mirror, errors, lock, end_time, due, nextErr, recorded>>

\* The for loop is through the list.
SweepDone ==
    /\ fPc = "sweep"
    /\ fIdx > Len(repository_list)
    /\ fPc' = "wait"
    /\ fIdx' = 1
    /\ FetchFrame
    /\ UNCHANGED <<mirror, errors, lock, end_time, due, nextErr, recorded>>

\* "while not self.shutdown and time.time() < end_time: time.sleep(...)"
\* ends; end_time = time.time() + self.period, and with "while not
\* self.shutdown" the next sweep starts.
Wake ==
    /\ fPc = "wait"
    /\ due
    /\ ~shutdown
    /\ due' = FALSE
    /\ end_time' = "full"
    /\ fPc' = "sweep"
    /\ fIdx' = 1
    /\ FetchFrame
    /\ UNCHANGED <<mirror, errors, lock, nextErr, recorded>>

FetcherNext ==
    \/ FetchAcquire
    \/ FetchPostpone
    \/ FetchReturn
    \/ FetchRaise
    \/ FetchHang
    \/ SweepError
    \/ SweepDone
    \/ Wake

\* ----------------------------------------------------------- shutdown
\* "if self.shutdown: break" in the sweep: the for loop is left.
ShutdownBreak ==
    /\ fPc = "sweep"
    /\ fIdx <= Len(repository_list)
    /\ shutdown
    /\ fPc' = "wait"
    /\ fIdx' = 1
    /\ FetchFrame
    /\ UNCHANGED <<mirror, errors, lock, end_time, due, nextErr, recorded>>

\* "while not self.shutdown and time.time() < end_time" ends on the flag,
\* whatever the time; "while not self.shutdown" ends run(): the thread is
\* no longer alive.
FetcherExit ==
    /\ fPc = "wait"
    /\ shutdown
    /\ fPc' = "done"
    /\ end_time' = "full"
    /\ due' = FALSE
    /\ UNCHANGED <<pollPeriod, remote, commit_by_branch, cmd, pollVars,
                   drained, sent, stopPc, callVars, rehashVars>>
    /\ UNCHANGED <<mirror, errors, lock, fIdx, nextErr, recorded, shutdown>>

\* Mutant of Join: the caller does not wait for the thread.
JoinWithoutWaiting == TRUE

\* self.fetcher.join() returns: the thread has terminated.
JoinReturns == Terminated(joined["die"])

\* die() on the main thread, between poll events: _stop_polling finds
\* self.fetcher set and calls self.fetcher.stop(), which sets the flag.
Stop ==
    /\ stopPc = "none"
    /\ pollPc = "idle"
    /\ fetcher # 0
    /\ shutdown' = TRUE
    /\ joined' = [joined EXCEPT !["die"] = fetcher]
    /\ stopPc' = "join"
    /\ UNCHANGED <<pollPeriod, remote, mirror, commit_by_branch, errors,
                   lock, cmd, pollVars, fetcherVars, histVars, callVars>>
    /\ UNCHANGED <<fetcher, swept, orphans, rehashPc, generation>>

\* self.fetcher.join(), then self.fetcher = None and
\* schedule.removeEvent(self.name()): _stop_polling returns.
Join ==
    /\ stopPc = "join"
    /\ JoinReturns
    /\ stopPc' = "stopped"
    /\ fetcher' = 0
    /\ scheduled' = FALSE
    /\ UNCHANGED <<pollPeriod, remote, mirror, commit_by_branch, errors,
                   lock, cmd, fetcherVars, histVars, callVars, shutdown>>
    /\ UNCHANGED <<swept, orphans, rehashPc, joined, generation>>
    /\ UNCHANGED <<pollPc, pollIdx, targets, pollT, new_commits_by_branch>>

\* die() when no fetcher was started (pollPeriod = 0): _stop_polling only
\* removes the poll event.
StopNoFetcher ==
    /\ stopPc = "none"
    /\ pollPc = "idle"
    /\ fetcher = 0
    /\ stopPc' = "stopped"
    /\ scheduled' = FALSE
    /\ UNCHANGED <<pollPeriod, remote, mirror, commit_by_branch, errors,
                   lock, cmd, fetcherVars, histVars, callVars, shutdown>>
    /\ UNCHANGED rehashVars
    /\ UNCHANGED <<pollPc, pollIdx, targets, pollT, new_commits_by_branch>>

StopNext ==
    \/ Stop
    \/ Join
    \/ StopNoFetcher
    \/ ShutdownBreak
    \/ FetcherExit

\* ------------------------------------------------------ on-demand command
\* repolog in its own thread: repository.get_commit(branch), a synchronized
\* method, waits for the lock and takes it.
CmdEnter(r) ==
    /\ cmd = "none"
    /\ synchronized(r, "cmd")
    /\ cmd' = r
    /\ lock' = [lock EXCEPT ![r] = "cmd"]
    /\ UNCHANGED <<stopVars, callVars, rehashVars>>
    /\ UNCHANGED <<pollPeriod, remote, mirror, commit_by_branch, errors>>
    /\ UNCHANGED <<pollVars, fetcherVars, histVars>>

\* The synchronized method returns: "finally: tlock.release()".
CmdLeave ==
    /\ cmd # "none"
    /\ lock' = [lock EXCEPT ![cmd] = "none"]
    /\ cmd' = "none"
    /\ UNCHANGED <<stopVars, callVars, rehashVars>>
    /\ UNCHANGED <<pollPeriod, remote, mirror, commit_by_branch, errors>>
    /\ UNCHANGED <<pollVars, fetcherVars, histVars>>

\* ---------------------------------------------------------- specification
Next ==
    \/ \E r \in Repos : \E b \in BranchSet(r) : Push(r, b)
    \/ Tick
    \/ PollNext
    \/ FetcherNext
    \/ \E r \in Repos : CmdEnter(r)
    \/ CmdLeave

Spec == Init /\ [][Next]_vars


\* ------------------------------------------------- the messages of a call
\* The authors of the commits of a batch.
Authors == {"a1", "a2"}

\* self.channels as a set.
ChannelSet(r) == {channels(r)[i] : i \in 1..Len(channels(r))}

RECURSIVE Concat(_)
\* The concatenation of a sequence of sequences.
Concat(ss) == IF ss = <<>> THEN <<>> ELSE Head(ss) \o Concat(Tail(ss))

\* The orders in which a set can be iterated.
Orders(S) ==
    {o \in [1..Cardinality(S) -> S] :
        \A i, j \in 1..Cardinality(S) : i # j => o[i] # o[j]}

\* irc.queueMsg(ircmsgs.privmsg(channel, line)): a line for channel "to";
\* kind tells which line it is, repo the repository it is about.
privmsg(to, kind, repo, about, line) ==
    [to |-> to, kind |-> kind, repo |-> repo, about |-> about, line |-> line]

\* repository.format_message(commit, branch), each line queued for the
\* channel: one line per line of the commit message template.
format_message(channel, r, commit, nlines) ==
    [j \in 1..nlines |-> privmsg(channel, "commit", r, commit.id, j)]

\* commits[-commits_at_once:]; with commits_at_once = 0 the slice is
\* commits[0:], the whole list.
Latest(commits, commits_at_once) ==
    IF commits_at_once = 0 \/ commits_at_once >= Len(commits) THEN commits
    ELSE SubSeq(commits, Len(commits) - commits_at_once + 1, Len(commits))

\* _display_some_commits, line by line: the "Showing latest %d of %d
\* commits" notice when the list is longer than commits_at_once, then the
\* formatted message of each commit of the slice.
_display_some_commits_lines(channel, r, commits, commits_at_once, nlines) ==
    LET notice == IF Len(commits) > commits_at_once
                  THEN <<privmsg(channel, "notice", r, Len(commits),
                                 commits_at_once)>>
                  ELSE <<>>
        shown == Latest(commits, commits_at_once)
    IN  notice \o Concat([i \in 1..Len(shown) |->
                             format_message(channel, r, shown[i], nlines)])

\* _display_commits for the commits of one branch, line by line: for each
\* author (the set of authors is iterated in the given order) the header,
\* unless group_header is off or the context is repolog, then the author's
\* commits.
_display_commits_lines(channel, r, group_header, commits, ctx, commits_at_once, nlines, order) ==
    Concat([k \in 1..Len(order) |->
        LET commits_ == SelectSeq(commits, LAMBDA c : c.author = order[k])
            some == _display_some_commits_lines(channel, r, commits_,
                                                commits_at_once, nlines)
        IN  IF ~group_header \/ ctx = "repolog" THEN some
            ELSE IF ctx = "snarf"
                 THEN <<privmsg(channel, "talking", r, commits_[1].id, 0)>>
                          \o some
                 ELSE <<privmsg(channel, "pushed", r, Len(commits_), 0)>>
                          \o some])

\* A call is made on the plugin at rest.
AtRest == call.op = "none"

\* A call leaves the trackers and both loops alone.
CallFrame == UNCHANGED <<pollPeriod, remote, mirror, commit_by_branch,
                         errors, lock, cmd, pollVars, fetcherVars, histVars,
                         stopVars, rehashVars>>

\* A call of _display_commits with a batch of commits of one branch.
DisplayCall ==
    /\ AtRest
    /\ \E channel \in Targets, r \in Repos, group_header \in BOOLEAN,
       ctx \in {"commits", "repolog"}, K \in 0..MaxBatch,
       commits_at_once \in 0..(MaxBatch + 1), nlines \in 1..2 :
        \E by \in [1..K -> Authors] :
            \E order \in Orders({by[i] : i \in 1..K}) :
                /\ CallFrame
                /\ channel \in ChannelSet(r)
                /\ call' = [op |-> "_display_commits", channel |-> channel,
                            repo |-> r, group_header |-> group_header,
                            ctx |-> ctx, authors |-> by,
                            maxCommitsAtOnce |-> commits_at_once,
                            nlines |-> nlines]
                /\ reply' = _display_commits_lines(channel, r, group_header,
                                [i \in 1..K |-> [id |-> i, author |-> by[i]]],
                                ctx, commits_at_once, nlines, order)

\* A channel the bot is in for which no repository is configured.
OtherChannel == "t0"

\* get_commit(sha) with a commit id seen in chat: the commit when the local
\* copy has it on one of its branches, None when it does not resolve.
get_commit_by_id(r, sha) ==
    IF \E b \in DOMAIN mirror[r] : sha \in 0..mirror[r][b] THEN sha ELSE None

\* Mutant of Subscribed: every repository of the registry.
AllRepositories(channel) == repository_list

\* filter(lambda r: channel in r.channels, self.repository_list).
Subscribed(channel) ==
    SelectSeq(repository_list, LAMBDA r : channel \in ChannelSet(r))

RECURSIVE _snarf_loop(_, _, _)
\* "for repository in repositories: commit = repository.get_commit(sha);
\* if commit: ...; break", from the i-th repository on: the repositories
\* consulted and the one that resolved the id.
_snarf_loop(repositories, sha, i) ==
    IF i > Len(repositories)
    THEN [consulted |-> repositories, hit |-> "none"]
    ELSE IF get_commit_by_id(repositories[i], sha) # None
         THEN [consulted |-> SubSeq(repositories, 1, i),
               hit |-> repositories[i]]
         ELSE _snarf_loop(repositories, sha, i + 1)

\* _snarf: nothing when enableSnarf is off; else the first subscribed
\* repository that resolves the id displays the commit in the snarf
\* context.
_snarf(channel, sha, enableSnarf, group_header, commits_at_once, nlines) ==
    IF ~enableSnarf THEN [consulted |-> <<>>, hit |-> "none", out |-> <<>>]
    ELSE LET found == _snarf_loop(Subscribed(channel), sha, 1)
         IN  [consulted |-> found.consulted,
              hit |-> found.hit,
              out |-> IF found.hit = "none" THEN <<>>
                      ELSE _display_commits_lines(channel, found.hit,
                               group_header[found.hit],
                               <<[id |-> get_commit_by_id(found.hit, sha),
                                  author |-> "a1"]>>,
                               "snarf", commits_at_once, nlines, <<"a1">>)]

\* A commit id is seen in a channel.
SnarfCall ==
    /\ AtRest
    /\ \E channel \in Targets \cup {OtherChannel},
          sha \in 0..(MaxCommits + 1),
          enableSnarf \in BOOLEAN, group_header \in [Repos -> BOOLEAN],
       commits_at_once \in {0, 1, maxCommitsAtOnce}, nlines \in 1..2 :
        LET done == _snarf(channel, sha, enableSnarf, group_header,
                           commits_at_once, nlines)
        IN  /\ CallFrame
            /\ call' = [op |-> "_snarf", channel |-> channel, sha |-> sha,
                        enableSnarf |-> enableSnarf,
                        group_header |-> group_header,
                        maxCommitsAtOnce |-> commits_at_once,
                        nlines |-> nlines, consulted |-> done.consulted,
                        hit |-> done.hit]
            /\ reply' = done.out

\* irc.reply(text): the answer goes where the command came from.
irc_reply(origin, kind, repo, about) == privmsg(origin, kind, repo, about, 0)

\* The repositories command for the channel the message came from: the
\* names of the repositories configured for it.
repositories(origin) ==
    IF Subscribed(origin) = <<>>
    THEN <<irc_reply(origin, "error", "none", 0)>>
    ELSE [i \in 1..Len(Subscribed(origin)) |->
             irc_reply(origin, "repository", Subscribed(origin)[i], 0)]

\* _parse_repo(irc, msg, repo, channel): the repository named repo, unless
\* there is none (the available ones are listed) or channel is not one of
\* its channels ("Sorry, not allowed in this channel.").
_parse_repo(origin, repo, channel) ==
    IF repo \notin Repos
    THEN [repository |-> "none",
          out |-> <<irc_reply(origin, "error", "none", 0)>>
                      \o repositories(origin)]
    ELSE IF channel \notin ChannelSet(repo)
         THEN [repository |-> "none",
               out |-> <<irc_reply(origin, "error", "none", 0)>>]
         ELSE [repository |-> repo, out |-> <<>>]

\* get_recent_commits(branch_head, count)[::-1]: the count newest commits of
\* the branch, oldest first.
get_recent_commits(head, count) ==
    LET n == IF count > head + 1 THEN head + 1 ELSE count
    IN  [i \in 1..n |-> [id |-> head - n + i, author |-> "a1"]]

\* The repolog command.
repolog(origin, channel, repo, branch, count, group_header, commits_at_once, nlines) ==
    LET parsed == _parse_repo(origin, repo, channel)
        r == parsed.repository
    IN  IF r = "none" THEN parsed.out
        ELSE IF branch \notin BranchSet(r)
             THEN <<irc_reply(origin, "error", "none", 0),
                    irc_reply(origin, "branches", r, Len(branches(r)))>>
             ELSE _display_commits_lines(channel, r, group_header,
                      get_recent_commits(get_commit(r, branch), count),
                      "repolog", commits_at_once, nlines, <<"a1">>)

\* The branches command: "Watched branches: ...".
branches_command(origin, channel, repo) ==
    LET parsed == _parse_repo(origin, repo, channel)
        r == parsed.repository
    IN  IF r = "none" THEN parsed.out
        ELSE <<irc_reply(origin, "branches", r, Len(branches(r)))>>

\* The channel argument that wrap's 'channel' gives a command sent to
\* origin: the command's first word when it names a channel, else the
\* channel the message was sent to.
ChannelArgs(origin) == {origin} \cup Targets

\* A repolog command is given.
RepologCall ==
    /\ AtRest
    /\ \E origin \in Targets \cup {OtherChannel},
          repo \in Repos \cup {"nope"}, branch \in {"master", "dev"},
          count \in 1..2, group_header \in BOOLEAN,
          commits_at_once \in {0, 1, maxCommitsAtOnce} :
        \E channel \in ChannelArgs(origin) :
            /\ CallFrame
            /\ call' = [op |-> "repolog", origin |-> origin,
                        channel |-> channel, repo |-> repo,
                        branch |-> branch, count |-> count]
            /\ reply' = repolog(origin, channel, repo, branch, count,
                                group_header, commits_at_once, 1)

\* A branches command is given.
BranchesCall ==
    /\ AtRest
    /\ \E origin \in Targets \cup {OtherChannel},
          repo \in Repos \cup {"nope"} :
        \E channel \in ChannelArgs(origin) :
            /\ CallFrame
            /\ call' = [op |-> "branches", origin |-> origin,
                        channel |-> channel, repo |-> repo]
            /\ reply' = branches_command(origin, channel, repo)

\* The most sections a configuration file has here.
MaxSections == 2

\* The values a section of the configuration file may hold: the required
\* ones, two of the optional ones, and one that is not recognized.
required_values == {"short name", "url"}

optional_values == {"branches", "channels"}

OptionNames == required_values \cup optional_values \cup {"bogus"}

\* The sections a file can hold: dict(parser.items(section)), the short
\* name being one of two.
Sections ==
    UNION {[names -> {"r1", "r2", "v"}] : names \in SUBSET OptionNames}

SectionSet ==
    {o \in Sections :
        \A n \in DOMAIN o : (o[n] = "v") <=> (n # "short name")}

\* Repository.__init__ on the options of a section: the exception it
\* raises, or "ok". Without 'channels' the default None has no split();
\* without 'branches' the default is a list, which has no split() in
\* get_branches.
Repository_init(options) ==
    IF \E n \in required_values : n \notin DOMAIN options THEN "missing"
    ELSE IF \E n \in DOMAIN options :
                n \notin required_values \cup optional_values
         THEN "unrecognized"
    ELSE IF "channels" \notin DOMAIN options THEN "AttributeError"
    ELSE IF "branches" \notin DOMAIN options THEN "AttributeError"
    ELSE "ok"

\* The tracker built from section number i: its short name, the path of
\* its mirror (repo_dir joined with the short name) and its long name.
Repository(i, options) ==
    [short_name |-> options["short name"],
     path |-> options["short name"],
     long_name |-> i]

RECURSIVE _read_config_loop(_, _, _)
\* The loop of _read_config from section i on, list holding the trackers
\* appended so far: the first exception ends the loop.
_read_config_loop(config, i, list) ==
    IF i > Len(config) THEN [repository_list |-> list, raised |-> "none"]
    ELSE IF Repository_init(config[i]) # "ok"
         THEN [repository_list |-> list,
               raised |-> Repository_init(config[i])]
         ELSE _read_config_loop(config, i + 1,
                                Append(list, Repository(i, config[i])))

_read_config(config) == _read_config_loop(config, 1, <<>>)

\* The configuration file is read (at construction or by rehash).
ReadConfigCall ==
    /\ AtRest
    /\ \E n \in 1..MaxSections : \E config \in [1..n -> SectionSet] :
        /\ CallFrame
        /\ call' = [op |-> "_read_config", config |-> config,
                    repository_list |-> _read_config(config).repository_list,
                    raised |-> _read_config(config).raised]
        /\ reply' = <<>>

\* The most patterns a 'branches' option holds here.
MaxPatterns == 2

\* Branch names and patterns are tuples of characters.
main == <<"m", "a", "i", "n">>

release_1 == <<"r", "e", "l", "e", "a", "s", "e", "-", "1">>

release_2 == <<"r", "e", "l", "e", "a", "s", "e", "-", "2">>

dev == <<"d", "e", "v">>

\* The branch lists of the remote (repo.remotes[0].refs, in its order).
RepoBranchLists == {<<dev, main, release_1, release_2>>, <<dev, main>>}

\* The words a 'branches' option is made of.
Patterns ==
    {main, dev, <<"*">>, <<"?", "e", "v">>, <<"*", "-", "1">>,
     <<"r", "e", "l", "e", "a", "s", "e", "*">>, <<"t", "o", "p", "i", "c">>}

RECURSIVE fnmatch(_, _)
\* fnmatch.fnmatch(name, pat) for patterns of literal characters, "*" (any
\* run of characters) and "?" (any one character).
fnmatch(name, pat) ==
    IF pat = <<>> THEN name = <<>>
    ELSE IF Head(pat) = "*"
         THEN \/ fnmatch(name, Tail(pat))
              \/ name # <<>> /\ fnmatch(Tail(name), pat)
    ELSE /\ name # <<>>
         /\ Head(pat) = "?" \/ Head(pat) = Head(name)
         /\ fnmatch(Tail(name), Tail(pat))

\* fnmatch.filter(names, pat): the names that match, in their order.
fnmatch_filter(names, pat) == SelectSeq(names, LAMBDA b : fnmatch(b, pat))

RECURSIVE get_branches_loop(_, _, _, _, _)
\* The loop of get_branches from pattern i on: a pattern without a match
\* is logged as a warning, the matches of any other extend the list.
get_branches_loop(opt_branches, repo_branches, i, list, warned) ==
    IF i > Len(opt_branches) THEN [branches |-> list, warnings |-> warned]
    ELSE LET matched == fnmatch_filter(repo_branches, opt_branches[i])
         IN  IF matched = <<>>
             THEN get_branches_loop(opt_branches, repo_branches, i + 1,
                                    list, Append(warned, opt_branches[i]))
             ELSE get_branches_loop(opt_branches, repo_branches, i + 1,
                                    list \o matched, warned)

\* get_branches(option_val, repo), opt_branches being the words of
\* option_val and repo_branches the branches of the remote.
get_branches(opt_branches, repo_branches) ==
    get_branches_loop(opt_branches, repo_branches, 1, <<>>, <<>>)

\* clone(): the tracked branches are resolved, then each is fetched and its
\* cursor set unless the fetch of the branch fails.
CloneCall ==
    /\ AtRest
    /\ \E n \in 1..MaxPatterns, repo_branches \in RepoBranchLists :
        \E opt_branches \in [1..n -> Patterns],
           failing \in SUBSET {repo_branches[i] :
                                   i \in 1..Len(repo_branches)} :
            LET got == get_branches(opt_branches, repo_branches)
            IN  /\ CallFrame
                /\ call' = [op |-> "clone",
                            branches_opt |-> opt_branches,
                            repo_branches |-> repo_branches,
                            branches |-> got.branches,
                            warnings |-> got.warnings,
                            commit_by_branch |->
                                {got.branches[i] :
                                     i \in 1..Len(got.branches)} \ failing]
                /\ reply' = <<>>

\* The operations called on demand.
\* The GitPython APIs the plugin supports (0.1.x and 0.3.x).
GitApiVersions == {1, 3}

\* _get_commits(repo, first, last) as a list: commits_between(first, last)
\* of API 0.1.x lists the range oldest first, iter_commits("first..last")
\* of API 0.3.x lists it as git rev-list does, newest first.
_get_commits_list(api, first, last) ==
    IF api = 1 THEN [i \in 1..(last - first) |-> first + i]
    ELSE [i \in 1..(last - first) |-> last - i + 1]

\* get_new_commits(): results = list(result) for every branch with a
\* cursor.
get_new_commits_list(r, api) ==
    [b \in DOMAIN commit_by_branch[r] |->
        _get_commits_list(api, commit_by_branch[r][b], mirror[r][b])]

\* get_new_commits() is called on a repository and each list is handed to
\* _display_some_commits, which shows commits[-commits_at_once:].
GetNewCommitsCall ==
    /\ AtRest
    /\ \E r \in Repos, api \in GitApiVersions,
          commits_at_once \in {1, maxCommitsAtOnce} :
        /\ CallFrame
        /\ call' = [op |-> "get_new_commits", repo |-> r,
                    GIT_API_VERSION |-> api,
                    maxCommitsAtOnce |-> commits_at_once,
                    new_commits_by_branch |-> get_new_commits_list(r, api),
                    shown |-> [b \in DOMAIN commit_by_branch[r] |->
                                  Latest(get_new_commits_list(r, api)[b],
                                         commits_at_once)]]
        /\ reply' = <<>>

CallNext ==
    \/ GetNewCommitsCall
    \/ DisplayCall
    \/ SnarfCall
    \/ RepologCall
    \/ BranchesCall
    \/ ReadConfigCall
    \/ CloneCall

\* The plugin at rest between two poll cycles: the local copies are level
\* with the remotes, the cursors are at or behind the heads, and what is
\* behind the cursors has been notified.
CallInit ==
    /\ pollPeriod \in PeriodValues \ {0}
    /\ remote \in {h \in [Repos -> UNION {[BranchSet(r) -> 0..MaxCommits] :
                                             r \in Repos}] :
                      \A r \in Repos : DOMAIN h[r] = BranchSet(r)}
    /\ Pushed <= MaxCommits
    /\ mirror = remote
    /\ commit_by_branch \in
           {c \in [Repos -> UNION {[BranchSet(r) -> 0..MaxCommits] :
                                      r \in Repos}] :
               \A r \in Repos :
                   /\ DOMAIN c[r] = BranchSet(r)
                   /\ \A b \in BranchSet(r) : c[r][b] <= remote[r][b]}
    /\ errors = [r \in Repos |-> <<>>]
    /\ lock = [r \in Repos |-> "none"]
    /\ pollPc = "idle"
    /\ pollIdx = 1
    /\ targets = <<>>
    /\ pollT = 1
    /\ new_commits_by_branch = <<>>
    /\ scheduled = (pollPeriod > 0)
    /\ fPc = IF pollPeriod > 0 THEN "wait" ELSE "none"
    /\ fIdx = 1
    /\ end_time = "full"
    /\ due = FALSE
    /\ cmd = "none"
    /\ nextErr = 0
    /\ recorded = [r \in Repos |-> <<>>]
    /\ drained = [r \in Repos |-> <<>>]
    /\ sent = [t \in Targets |-> [r \in Repos |-> [b \in BranchSet(r) |->
                  IF t \in ChannelSet(r) THEN 1..commit_by_branch[r][b]
                                          ELSE {}]]]
    /\ shutdown = FALSE
    /\ stopPc = "none"
    /\ call = [op |-> "none"]
    /\ reply = <<>>
    /\ fetcher = IF pollPeriod > 0 THEN 1 ELSE 0
    /\ swept = IF pollPeriod > 0 THEN <<1>> ELSE <<>>
    /\ orphans = {}
    /\ rehashPc = "none"
    /\ joined = [c \in {"rehash", "die"} |-> 0]
    /\ generation = 1

\* The on-demand operations, each called on the plugin at rest.
CallSpec == CallInit /\ [][CallNext]_vars

\* ----------------------------------------------------------------- rehash
\* The most rehash commands given in a run.
MaxRehash == 2

\* What every step of rehash leaves alone.
RehashFrame == UNCHANGED <<pollPeriod, remote, cmd, pollPc, pollIdx, targets,
                           pollT, new_commits_by_branch, histVars, stopPc,
                           call>>

\* The rehash command is given (Git.threaded: it runs in a thread of its
\* own); _stop_polling finds self.fetcher set, calls self.fetcher.stop()
\* and then self.fetcher.join().
RehashStop ==
    /\ rehashPc = "none"
    /\ stopPc = "none"
    /\ generation <= MaxRehash
    /\ fetcher # 0
    /\ shutdown' = TRUE
    /\ joined' = [joined EXCEPT !["rehash"] = fetcher]
    /\ rehashPc' = "join"
    /\ RehashFrame
    /\ UNCHANGED <<mirror, commit_by_branch, errors, lock, scheduled,
                   fetcherVars, reply, fetcher, swept, orphans, generation>>

\* The rehash command is given and _stop_polling finds self.fetcher None.
RehashNoFetcher ==
    /\ rehashPc = "none"
    /\ stopPc = "none"
    /\ generation <= MaxRehash
    /\ fetcher = 0
    /\ rehashPc' = "remove"
    /\ RehashFrame
    /\ UNCHANGED <<mirror, commit_by_branch, errors, lock, scheduled,
                   fetcherVars, shutdown, reply, fetcher, swept, orphans,
                   joined, generation>>

\* self.fetcher.join() returns: the thread has terminated.
RehashJoin ==
    /\ rehashPc = "join"
    /\ Terminated(joined["rehash"])
    /\ rehashPc' = "drop"
    /\ RehashFrame
    /\ UNCHANGED <<mirror, commit_by_branch, errors, lock, scheduled,
                   fetcherVars, shutdown, reply, fetcher, swept, orphans,
                   joined, generation>>

\* self.fetcher = None.
RehashDrop ==
    /\ rehashPc = "drop"
    /\ fetcher' = 0
    /\ rehashPc' = "remove"
    /\ RehashFrame
    /\ UNCHANGED <<mirror, commit_by_branch, errors, lock, scheduled,
                   fetcherVars, shutdown, reply, swept, orphans, joined,
                   generation>>

\* schedule.removeEvent(self.name()); a KeyError is passed over.
RehashRemove ==
    /\ rehashPc = "remove"
    /\ scheduled' = FALSE
    /\ rehashPc' = "read"
    /\ RehashFrame
    /\ UNCHANGED <<mirror, commit_by_branch, errors, lock, fetcherVars,
                   shutdown, reply, fetcher, swept, orphans, joined,
                   generation>>

\* self._read_config(): self.repository_list is a new list of new
\* Repository objects (free locks, empty error queues), each cloned: its
\* branches fetched and its cursors set to the heads.
ReadConfig ==
    /\ generation' = generation + 1
    /\ lock' = [r \in Repos |-> "none"]
    /\ errors' = [r \in Repos |-> <<>>]
    /\ mirror' = remote
    /\ commit_by_branch' = remote

\* _read_config() returns.
RehashRead ==
    /\ rehashPc = "read"
    /\ ReadConfig
    /\ rehashPc' = "schedule"
    /\ RehashFrame
    /\ UNCHANGED <<scheduled, fetcherVars, shutdown, reply, fetcher, swept,
                   orphans, joined>>

\* _read_config() raises (a section fails validation): "except Exception,
\* e: irc.reply('Warning: ...')", and rehash returns.
RehashReadError ==
    /\ rehashPc = "read"
    /\ ReadConfig
    /\ reply' = <<privmsg("t1", "warning", "none", 0, 0)>>
    /\ rehashPc' = "none"
    /\ RehashFrame
    /\ UNCHANGED <<scheduled, fetcherVars, shutdown, fetcher, swept, orphans,
                   joined>>

\* self._schedule_next_event() and the reply 'Git reinitialized with ...';
\* when addEvent raises, the reply is the warning.  With pollPeriod = 0
\* (no fetcher was ever started) _schedule_next_event only removes the
\* event.
RehashSchedule ==
    /\ rehashPc = "schedule"
    /\ IF pollPeriod > 0
       THEN /\ ScheduleNextEvent
            /\ reply' = IF addEvent(scheduled).raised
                        THEN <<privmsg("t1", "warning", "none", 0, 0)>>
                        ELSE <<privmsg("t1", "reinitialized", "none",
                                       Len(repository_list), 0)>>
       ELSE /\ scheduled' = FALSE
            /\ reply' = <<privmsg("t1", "reinitialized", "none",
                                  Len(repository_list), 0)>>
            /\ UNCHANGED <<swept, fetcher, orphans, lock, fetcherVars,
                           shutdown>>
    /\ rehashPc' = "none"
    /\ RehashFrame
    /\ UNCHANGED <<mirror, commit_by_branch, errors, joined, generation>>

\* A GitFetcher thread that is no longer the newest ends the fetch it was
\* in: the lock is released.
OrphanRelease(r) ==
    /\ lock[r] = "orphan"
    /\ lock' = [lock EXCEPT ![r] = "none"]
    /\ UNCHANGED <<pollPeriod, remote, mirror, commit_by_branch, errors, cmd,
                   pollVars, fetcherVars, histVars, stopVars, callVars,
                   rehashVars>>

RehashNext ==
    \/ RehashStop
    \/ RehashNoFetcher
    \/ RehashJoin
    \/ RehashDrop
    \/ RehashRemove
    \/ RehashRead
    \/ RehashReadError
    \/ RehashSchedule

\* The plugin with rehash commands and die(): the poll cycle of a bot that
\* is in none of the configured channels, the sweeps of the newest
\* GitFetcher thread, and no push to the remotes.
RehashSpecNext ==
    \/ PollFire
    \/ PollSkip
    \/ PollSchedule
    \/ PollCrash
    \/ Tick
    \/ FetchAcquire
    \/ FetchPostpone
    \/ FetchReturn
    \/ SweepDone
    \/ Wake
    \/ ShutdownBreak
    \/ FetcherExit
    \/ \E r \in Repos : OrphanRelease(r)
    \/ RehashNext
    \/ Stop
    \/ Join
    \/ StopNoFetcher

RehashSpec == Init /\ [][RehashSpecNext]_vars

\* ------------------------------------ a fetcher on a discarded registry
\* A GitFetcher thread sweeps the list it was constructed with.
Stale(i) == swept[i] # generation

\* The live GitFetcher threads that sweep a registry _read_config has since
\* replaced.
StaleThreads ==
    {i \in orphans : Stale(i)}
        \cup (IF fPc \notin {"none", "done"} /\ swept # <<>> /\ Stale(Len(swept))
              THEN {Len(swept)} ELSE {})

\* A sweep of a thread on a replaced registry reaches r: the lock it takes
\* is the one of the old Repository object (every Repository has an RLock
\* of its own), and its fetch() moves the heads of the local copy in
\* repoDir/<short name>, the directory the new Repository object for the
\* section reads as well.
StaleFetch(r) ==
    /\ StaleThreads # {}
    /\ mirror' = [mirror EXCEPT ![r] = fetch(r, Len(branches(r)))]
    /\ UNCHANGED <<pollPeriod, remote, commit_by_branch, errors, lock, cmd,
                   pollVars, fetcherVars, histVars, stopVars, callVars,
                   rehashVars>>

\* The steps of the newest GitFetcher thread while the registry it sweeps
\* is the current one.
CurrentFetcherNext ==
    /\ swept # <<>>
    /\ ~Stale(Len(swept))
    /\ \/ FetchAcquire
       \/ FetchPostpone
       \/ FetchReturn
       \/ SweepDone
       \/ Wake

\* The first rehash command of the run is given.
FirstRehash ==
    /\ generation = 1
    /\ RehashStop

\* rehash reads the configuration while no poll cycle is in progress.
RehashReadAtRest ==
    /\ pollPc = "idle"
    /\ RehashRead

\* The plugin in its channels, with pushes to the remotes and one rehash
\* command; the configuration is read between two poll cycles.
StaleSpecNext ==
    \/ \E r \in Repos : \E b \in BranchSet(r) : Push(r, b)
    \/ Tick
    \/ PollFire
    \/ PollAcquire
    \/ PollPostpone
    \/ PollGetNewCommits
    \/ PollDisplay
    \/ PollAdvance
    \/ PollSchedule
    \/ CurrentFetcherNext
    \/ ShutdownBreak
    \/ FetcherExit
    \/ \E r \in Repos : OrphanRelease(r)
    \/ \E r \in Repos : StaleFetch(r)
    \/ FirstRehash
    \/ RehashJoin
    \/ RehashDrop
    \/ RehashRemove
    \/ RehashReadAtRest
    \/ RehashSchedule

StaleSpec == Init /\ [][StaleSpecNext]_vars

\* ------------------------------------------------------ format_message
\* The longest commit message template here, in characters.
MaxTemplate == 4

\* The characters of a template: a substitution key ("a", the author
\* name), "%", "(", ")", a letter that is no key, a byte that is not ASCII
\* and the line break.
Chars == {"a", "%", "(", ")", "x", "0xC3", "\n"}

\* subst.keys(), as far as they occur in Chars.
SubstKeys == {"a", "%"}

\* subst[c]: the author's name is the one character "A".
subst(c) == IF c = "a" THEN <<"A">> ELSE <<"%">>

RECURSIVE split(_, _)
\* self.commit_message.split('\n'), cur being the line read so far.
split(text, cur) ==
    IF text = <<>> THEN <<cur>>
    ELSE IF Head(text) = "\n" THEN <<cur>> \o split(Tail(text), <<>>)
    ELSE split(Tail(text), Append(cur, Head(text)))

RECURSIVE scan(_, _, _, _)
\* The loop "for c in line" of format_message from the rest of the line
\* on, in the given mode, with outline and color as built so far.
scan(line, mode, outline, color) ==
    IF line = <<>> THEN outline
    ELSE LET c == Head(line)
         IN  IF mode = "MODE_SUBST"
             THEN IF c \in SubstKeys
                  THEN scan(Tail(line), "MODE_NORMAL",
                            outline \o subst(c), color)
                  ELSE IF c = "("
                       THEN scan(Tail(line), "MODE_COLOR", outline, <<>>)
                       ELSE scan(Tail(line), "MODE_NORMAL",
                                 Append(outline, c), color)
             ELSE IF mode = "MODE_COLOR"
                  THEN IF c = ")"
                       THEN scan(Tail(line), "MODE_NORMAL",
                                 outline \o <<"0x03">> \o color, color)
                       ELSE scan(Tail(line), "MODE_COLOR", outline,
                                 Append(color, c))
             ELSE IF c = "%"
                  THEN scan(Tail(line), "MODE_SUBST", outline, color)
                  ELSE scan(Tail(line), "MODE_NORMAL",
                            Append(outline, c), color)

\* outline.encode('utf-8') on a byte string: Python 2 first decodes it as
\* ASCII, which raises UnicodeDecodeError on any other byte.
encode(outline) ==
    IF \E i \in 1..Len(outline) : outline[i] = "0xC3"
    THEN "UnicodeDecodeError"
    ELSE outline

\* format_message(commit, branch) with self.commit_message = text: the
\* list of the encoded outlines, one per line, each line scanned from
\* MODE_NORMAL, or the exception that ends the call.
format_message_lines(text) ==
    LET lines == split(text, <<>>)
        result == [i \in 1..Len(lines) |->
                      encode(scan(lines[i], "MODE_NORMAL", <<>>, <<>>))]
    IN  IF \E i \in 1..Len(lines) : result[i] = "UnicodeDecodeError"
        THEN [raised |-> "UnicodeDecodeError", lines |-> lines,
              result |-> <<>>]
        ELSE [raised |-> "none", lines |-> lines, result |-> result]

\* format_message is called with some commit message template.
FormatMessageCall ==
    /\ AtRest
    /\ \E n \in 0..MaxTemplate : \E text \in [1..n -> Chars] :
        /\ CallFrame
        /\ call' = [op |-> "format_message", commit_message |-> text,
                    lines |-> format_message_lines(text).lines,
                    raised |-> format_message_lines(text).raised,
                    result |-> format_message_lines(text).result]
        /\ reply' = <<>>

\* format_message on every template, the plugin being idle.
FormatSpec == Init /\ [][FormatMessageCall]_vars

\* The branches whose checkout fails in clone(): one branch of one
\* repository.
FailingBranches ==
    {[r \in Repos |-> IF r = q THEN {b} ELSE {}] :
         q \in Repos, b \in UNION {BranchSet(r) : r \in Repos}}

\* The state after Git.__init__ when the checkout of some branches failed
\* in clone(): "except: log_error(...)" leaves the branch in self.branches
\* without an entry in commit_by_branch, and the local copy has no such
\* branch.
CloneInit ==
    /\ pollPeriod \in PeriodValues \ {0}
    /\ remote = [r \in Repos |-> [b \in BranchSet(r) |-> 0]]
    /\ \E failing \in FailingBranches :
        /\ \A r \in Repos : failing[r] \subseteq BranchSet(r)
        /\ mirror = [r \in Repos |-> [b \in BranchSet(r) |->
                        IF b \in failing[r] THEN None ELSE 0]]
        /\ commit_by_branch = [r \in Repos |->
                                  [b \in BranchSet(r) \ failing[r] |-> 0]]
    /\ errors = [r \in Repos |-> <<>>]
    /\ lock = [r \in Repos |-> "none"]
    /\ pollPc = "idle"
    /\ pollIdx = 1
    /\ targets = <<>>
    /\ pollT = 1
    /\ new_commits_by_branch = <<>>
    /\ scheduled = TRUE
    /\ fPc = "sweep"
    /\ fIdx = 1
    /\ end_time = "half"
    /\ due = FALSE
    /\ cmd = "none"
    /\ nextErr = 0
    /\ recorded = [r \in Repos |-> <<>>]
    /\ drained = [r \in Repos |-> <<>>]
    /\ sent = [t \in Targets |-> [r \in Repos |-> [b \in BranchSet(r) |->
                  {}]]]
    /\ shutdown = FALSE
    /\ stopPc = "none"
    /\ call = [op |-> "none"]
    /\ reply = <<>>
    /\ fetcher = IF pollPeriod > 0 THEN 1 ELSE 0
    /\ swept = IF pollPeriod > 0 THEN <<1>> ELSE <<>>
    /\ orphans = {}
    /\ rehashPc = "none"
    /\ joined = [c \in {"rehash", "die"} |-> 0]
    /\ generation = 1

\* The plugin running after a clone() in which a checkout may have failed.
CloneSpec == CloneInit /\ [][Next]_vars

\* The plugin running and then unloaded: die() is called at some moment.
StopSpec == Init /\ [][Next \/ StopNext]_vars

\* The fetcher thread is scheduled by the interpreter; nothing is assumed
\* about the clock.
FairStopSpec ==
    /\ StopSpec
    /\ WF_vars(FetcherNext \/ ShutdownBreak \/ FetcherExit)

\* The threads run whenever they can: the main thread runs due poll events,
\* the fetcher thread is scheduled by the interpreter, and time passes.
FairSpec ==
    /\ Spec
    /\ WF_vars(PollNext)
    /\ WF_vars(FetcherNext)
    /\ WF_vars(Tick)

\* Every thread runs whenever it can: the main thread runs due poll events,
\* the fetcher thread and the thread of a command are scheduled by the
\* interpreter, so a synchronized method that can return does return.
FairLockSpec ==
    /\ Spec
    /\ WF_vars(PollNext)
    /\ WF_vars(FetcherNext)
    /\ WF_vars(CmdLeave)

\* ------------------------------------------------------------- properties
\* The fetcher thread is inside repository.fetch() of r.
InFetch(r) == fPc \in {"fetch", "hung"} /\ FetchRepo = r

\* The main thread is between the diff and the cursor advance of r in _poll.
InPoll(r) == pollPc \in {"get_new_commits", "display"} /\ PollRepo = r

\* The command thread is inside a synchronized method of r.
InCmd(r) == cmd = r

\* Thread t works on repository r.
Inside(t, r) ==
    \/ t = "poll" /\ InPoll(r)
    \/ t = "fetcher" /\ InFetch(r)
    \/ t = "cmd" /\ InCmd(r)

\* The head of branch b that the diff of the running cycle saw.
DiffHead(b) ==
    LET commits == new_commits_by_branch[b]
    IN  IF commits = {} THEN commit_by_branch[PollRepo][b]
        ELSE CHOOSE c \in commits : \A d \in commits : d <= c

\* ---------------------------------------------------------------------- C1
OneThreadPerRepository ==
    \A r \in Repos :
        /\ Cardinality({t \in Threads : Inside(t, r)}) <= 1
        /\ \A t \in Threads : Inside(t, r) => lock[r] = t

CursorWrittenUnderLock ==
    \A r \in Repos :
        commit_by_branch'[r] # commit_by_branch[r] =>
            lock[r] = "poll" /\ InPoll(r)

\* C1: on every repository at most one thread is at work (the fetcher in
\* fetch(), the poll cycle between its diff and its cursor advance, a command
\* in a synchronized method), and whoever works on it owns its lock; every
\* step that changes commit_by_branch of a repository is taken while the
\* poll thread owns that repository's lock.
C1_MutualExclusion ==
    [](OneThreadPerRepository) /\ [][CursorWrittenUnderLock]_vars

\* C1 witness: the poll cycle has diffed r1 and found commits, and the
\* fetcher's sweep stands at r1.
C1_Witness ==
    /\ InPoll("r1")
    /\ pollPc = "display"
    /\ new_commits_by_branch["master"] # {}
    /\ fPc = "sweep"
    /\ fIdx = 1

\* ---------------------------------------------------------------------- C2
\* The poll cycle stands at a repository whose lock another thread owns.
PollFindsLocked ==
    /\ pollPc = "loop"
    /\ pollIdx <= Len(repository_list)
    /\ lock[PollRepo] \notin {"none", "poll"}

\* The fetch sweep stands at a repository whose lock another thread owns.
SweepFindsLocked ==
    /\ fPc = "sweep"
    /\ fIdx <= Len(repository_list)
    /\ lock[FetchRepo] \notin {"none", "fetcher"}

\* What a loop that defers leaves alone: the repositories' local copies,
\* cursors, error queues, locks, and what was notified and reported.
NothingDone ==
    UNCHANGED <<mirror, commit_by_branch, errors, lock, sent, drained,
                recorded>>

PollDefers ==
    /\ (PollFindsLocked /\ <<pollPc, pollIdx>>' # <<pollPc, pollIdx>>) =>
           /\ NothingDone
           /\ \/ pollPc' = "loop" /\ pollIdx' = pollIdx + 1
              \/ pollPc' = "idle"
    /\ (pollPc = "loop" /\ pollPc' = "loop") => pollIdx' >= pollIdx

SweepDefers ==
    /\ (SweepFindsLocked /\ <<fPc, fIdx>>' # <<fPc, fIdx>>) =>
           /\ NothingDone
           /\ \/ fPc' = "sweep" /\ fIdx' = fIdx + 1
              \/ fPc' = "wait"
    /\ (fPc = "sweep" /\ fPc' = "sweep") => fIdx' >= fIdx

\* C2: a loop that finds the lock of its repository owned by another thread
\* can take its postponing step at once (it does not wait); its next step
\* touches nothing of any repository and moves the loop to the next
\* repository (or ends the pass); and within a pass a loop never goes back
\* to a repository it has passed.
C2_NeverWaitsForLock ==
    /\ [](PollFindsLocked => ENABLED PollPostpone)
    /\ [](SweepFindsLocked => ENABLED FetchPostpone)
    /\ [][PollDefers /\ SweepDefers]_vars

\* C2 witness: the fetcher is inside fetch() of r1, which has commits the
\* poll cycle has not diffed, and the poll cycle has gone on to r2.
C2_Witness ==
    /\ fPc = "fetch"
    /\ FetchRepo = "r1"
    /\ lock["r1"] = "fetcher"
    /\ commit_by_branch["r1"]["master"] < mirror["r1"]["master"]
    /\ pollPc = "loop"
    /\ pollIdx = 2

\* ---------------------------------------------------------------------- C3
\* C3: whenever fetch() hangs on one repository while another repository's
\* local copy is behind its remote, a later sweep brings that other local
\* copy up to date (or the poll loop has ended: no _poll runs and no poll
\* event is scheduled).
C3_HungFetchStallsNobody ==
    \A r \in Repos : \A b \in BranchSet(r) :
        (fPc = "hung" /\ FetchRepo # r /\ mirror[r][b] < remote[r][b])
            ~> \/ mirror[r][b] = remote[r][b]
               \/ pollPc = "idle" /\ ~scheduled

\* ---------------------------------------------------------------------- C4
\* The step in which a poll cycle that has diffed its repository leaves it.
LeaveAfterDiff ==
    /\ pollPc = "display"
    /\ pollIdx' = pollIdx + 1

LeavesServedAndAdvanced ==
    \A r \in Repos :
        (LeaveAfterDiff /\ r = PollRepo) =>
            /\ pollT >= Len(targets)
            /\ \A b \in DOMAIN new_commits_by_branch :
                   commit_by_branch'[r][b] = DiffHead(b)

\* C4: a poll cycle that has diffed a repository leaves it only with every
\* eligible target other than a failing one served and with the cursor of
\* every diffed branch advanced to the head the diff saw.
C4_DeliveryFailureIsolated == [][LeavesServedAndAdvanced]_vars

\* ---------------------------------------------------------------------- C5
\* The step in which _poll displays the new commits to its next target.
DisplayStep ==
    /\ pollPc = "display"
    /\ pollT' = pollT + 1

ShowsOnlyUnseen ==
    DisplayStep =>
        \A b \in DOMAIN new_commits_by_branch :
            _display_some_commits(new_commits_by_branch[b])
                \cap sent[targets[pollT]][PollRepo][b] = {}

\* C5: no poll cycle shows a target a commit that an earlier poll cycle has
\* shown to that target.
C5_NoDuplicateNotification == [][ShowsOnlyUnseen]_vars

\* ---------------------------------------------------------------------- C6
\* The step of _poll that advances the cursors of the diffed branches.
AdvanceStep ==
    /\ pollPc = "display"
    /\ pollT > Len(targets)
    /\ pollIdx' = pollIdx + 1

AdvanceReachesDiffHead ==
    \A r \in Repos :
        (AdvanceStep /\ r = PollRepo) =>
            /\ \A b \in DOMAIN new_commits_by_branch :
                   commit_by_branch'[r][b] = DiffHead(b)
            /\ \A b \in DOMAIN commit_by_branch'[r] :
                   get_new_commits(r)'[b] = {}

RaiseIsQueued ==
    nextErr' # nextErr =>
        /\ Len(errors'[FetchRepo]) = Len(errors[FetchRepo]) + 1
        /\ SubSeq(errors'[FetchRepo], 1, Len(errors[FetchRepo]))
               = errors[FetchRepo]
        /\ errors'[FetchRepo][Len(errors'[FetchRepo])]
               = Exceptions[Len(recorded[FetchRepo]) + 1]
        /\ lock'[FetchRepo] = "none"
        /\ fPc' = "sweep"
        /\ fIdx' = fIdx + 1

\* C7: a step in which fetch() raises appends the exception to the error
\* queue of the repository being fetched, releases its lock, and leaves the
\* fetcher thread in its sweep, at the next repository.
C7_FetchFailuresQueued == [][RaiseIsQueued]_vars

\* C7 witness: fetch() raised on r1, the error is queued, and the same sweep
\* is inside fetch() of r2.
C7_Witness ==
    /\ errors["r1"] = <<"e1">>
    /\ fPc = "fetch"
    /\ FetchRepo = "r2"
    /\ end_time = "half"

\* ---------------------------------------------------------------------- C8
\* C8: on every repository, the errors returned by the get_errors calls so
\* far, followed by the errors still queued, are the errors recorded, in the
\* order recorded; and the queue is empty when get_errors has returned.
C8_ErrorsDrainedOnce ==
    \A r \in Repos :
        /\ drained[r] \o errors[r] = recorded[r]
        /\ (pollPc = "get_new_commits" /\ PollRepo = r) => errors[r] = <<>>

\* C8 witness: of two errors recorded on r1, the first was drained by a poll
\* cycle and the second is queued.
C8_Witness ==
    /\ drained["r1"] = <<"e1">>
    /\ errors["r1"] = <<"e2">>

\* ---------------------------------------------------------------------- C9
\* C9: with pollPeriod > 0, whenever no _poll is running a poll event is
\* scheduled, and the fetcher thread is in its loop.
C9_LoopsSurvive ==
    pollPeriod > 0 =>
        /\ pollPc = "idle" => scheduled
        /\ fPc \in {"sweep", "fetch", "hung", "wait"}

\* --------------------------------------------------------------------- C10
\* C10: the fetcher is inside fetch() only when half of its period has
\* elapsed since its start: the first deadline is reached or behind.
C10_StaggeredStart ==
    \A r \in Repos : InFetch(r) => (due \/ end_time = "full")

\* --------------------------------------------------------------------- C11
\* _stop_polling has returned only if the thread has terminated (or none was
\* started): then no fetch is in progress.
StoppedMeansTerminated ==
    stopPc = "stopped" =>
        /\ fPc \in {"done", "none"}
        /\ \A r \in Repos : ~InFetch(r) /\ lock[r] # "fetcher"

SkipStep ==
    /\ pollPc = "loop"
    /\ pollIdx <= Len(repository_list)
    /\ lock[PollRepo] = "none"
    /\ pollPc' = "loop"
    /\ pollIdx' = pollIdx + 1

SkipTouchesNothing ==
    SkipStep => UNCHANGED <<lock, errors, commit_by_branch, mirror, drained,
                            sent>>

\* The cycle that takes a repository reports every error recorded so far and
\* diffs every branch from its cursor to its head.
TakenReportsAll ==
    \A r \in Repos :
        /\ (pollPc = "loop" /\ pollPc' = "get_new_commits" /\ r = PollRepo) =>
               /\ drained'[r] = recorded[r]
               /\ errors'[r] = <<>>
        /\ (pollPc = "get_new_commits" /\ pollPc' = "display"
                /\ r = PollRepo) =>
               \A b \in BranchSet(r) :
                   new_commits_by_branch'[b] =
                       (commit_by_branch[r][b] + 1)..mirror[r][b]

FetchStep(r) ==
    /\ fPc = "fetch"
    /\ FetchRepo = r
    /\ fPc' = "sweep"

FetchKeepsCursors ==
    \A r \in Repos :
        FetchStep(r) =>
            /\ commit_by_branch' = commit_by_branch
            /\ \A q \in Repos \ {r} : mirror'[q] = mirror[q]
            /\ \A b \in BranchSet(r) : mirror'[r][b] >= mirror[r][b]

RefetchChangesNothing ==
    \A r \in Repos :
        (FetchStep(r) /\ mirror[r] = remote[r]) =>
            /\ mirror'[r] = mirror[r]
            /\ get_new_commits(r)' = get_new_commits(r)

\* C13: a fetch() changes no cursor of any repository and no head of
\* another repository; a fetch() of a repository whose local copy is level
\* with its remote (nothing was pushed since the last fetch) leaves every
\* head of the local copy as it was, so get_new_commits() returns after it
\* what it returned before it.
C13_FetchIdempotent == [][FetchKeepsCursors /\ RefetchChangesNothing]_vars

\* C13 witness: a commit of r1 was fetched and notified to both channels,
\* and the fetcher is inside fetch() of r1 again with nothing new on the
\* remote.
C13_Witness ==
    /\ InFetch("r1")
    /\ fPc = "fetch"
    /\ mirror["r1"] = remote["r1"]
    /\ mirror["r1"]["master"] = 1
    /\ commit_by_branch["r1"]["master"] = 1
    /\ sent["t1"]["r1"]["master"] = {1}
    /\ sent["t2"]["r1"]["master"] = {1}

\* --------------------------------------------------------------------- C14
\* C14: every cursor in commit_by_branch is a commit (never None) on the
\* history of its branch at or before the branch's head in the local copy.
C14_CursorInvariant ==
    \A r \in Repos : \A b \in DOMAIN commit_by_branch[r] :
        /\ commit_by_branch[r][b] # None
        /\ commit_by_branch[r][b] \in 0..mirror[r][b]

\* C14 witness: a fetch of r1 has raised; a poll cycle advanced the cursor
\* of master to commit 1, and the head of master has moved on to commit 2.
C14_Witness ==
    /\ recorded["r1"] = <<"e1">>
    /\ commit_by_branch["r1"]["master"] = 1
    /\ mirror["r1"]["master"] = 2
    /\ lock["r1"] = "none"

\* --------------------------------------------------------------------- C15
\* The number of lines of a kind among the messages of the call.
Count(kind) == Cardinality({i \in 1..Len(reply) : reply[i].kind = kind})

Min(a, b) == IF a <= b THEN a ELSE b

\* C15: a batch of K >= 1 commits by one author, displayed in the polling
\* context with the group header on and a one-line template, gives one
\* header line, min(K, maxCommitsAtOnce) commit lines, and the truncation
\* notice if and only if K > maxCommitsAtOnce, for every maxCommitsAtOnce
\* from 0 up.
C15_GroupingAndTruncation ==
    (/\ call.op = "_display_commits"
     /\ call.ctx = "commits"
     /\ call.group_header
     /\ call.nlines = 1
     /\ Len(call.authors) >= 1
     /\ \A i \in 1..Len(call.authors) : call.authors[i] = call.authors[1])
    => /\ Count("pushed") = 1
       /\ Count("commit") = Min(Len(call.authors), call.maxCommitsAtOnce)
       /\ Count("notice") =
              (IF Len(call.authors) > call.maxCommitsAtOnce THEN 1 ELSE 0)

\* --------------------------------------------------------------------- C16
\* Repository r is configured for the channel and has the commit.
Resolves(r, channel, sha) ==
    /\ channel \in ChannelSet(r)
    /\ \E b \in BranchSet(r) : sha \in 0..mirror[r][b]

\* The positions in the registry of the repositories that resolve the id.
Resolving(channel, sha) ==
    {i \in 1..Len(repository_list) :
        Resolves(repository_list[i], channel, sha)}

\* The first of them in registry order.
FirstResolving(channel, sha) ==
    repository_list[CHOOSE i \in Resolving(channel, sha) :
                        \A j \in Resolving(channel, sha) : i <= j]

\* The lookup: only subscribed repositories are consulted, in registry
\* order, up to the first that resolves the id; with none, or with snarfing
\* off, nothing is emitted.
SnarfLookup ==
    call.op = "_snarf" =>
        /\ \A i \in 1..Len(call.consulted) :
               call.channel \in ChannelSet(call.consulted[i])
        /\ IF call.enableSnarf /\ Resolving(call.channel, call.sha) # {}
           THEN LET first == FirstResolving(call.channel, call.sha)
                IN  /\ call.hit = first
                    /\ call.consulted[Len(call.consulted)] = first
                    /\ \A i \in 1..(Len(call.consulted) - 1) :
                           ~Resolves(call.consulted[i], call.channel,
                                     call.sha)
                    /\ \A i \in 1..Len(reply) :
                           reply[i].to = call.channel /\ reply[i].repo = first
           ELSE call.hit = "none" /\ reply = <<>>

\* The lines of the commit's formatted message, as queued for the channel.
MessageOf(channel, r, sha, nlines) ==
    [j \in 1..nlines |->
        [to |-> channel, kind |-> "commit", repo |-> r, about |-> sha,
         line |-> j]]

TalkingAbout(channel, r, sha) ==
    [to |-> channel, kind |-> "talking", repo |-> r, about |-> sha,
     line |-> 0]

\* C16 as stated: the first subscribed repository that resolves the id
\* emits one "Talking about" header followed by the commit's formatted
\* message, whatever its configuration; no later repository is consulted;
\* with no match or with snarfing off nothing is emitted.
C16_SnarfAsStated ==
    /\ SnarfLookup
    /\ (call.op = "_snarf" /\ call.hit # "none") =>
           reply = <<TalkingAbout(call.channel, call.hit, call.sha)>>
                      \o MessageOf(call.channel, call.hit, call.sha,
                                   call.nlines)

\* C16 amended: the lookup is as stated; with maxCommitsAtOnce >= 1 the
\* repository that resolves the id emits the commit's formatted message,
\* preceded by one "Talking about" header if and only if its group header
\* option is on.
C16_Snarf ==
    /\ SnarfLookup
    /\ (call.op = "_snarf" /\ call.hit # "none"
            /\ call.maxCommitsAtOnce >= 1) =>
           reply = (IF call.group_header[call.hit]
                    THEN <<TalkingAbout(call.channel, call.hit, call.sha)>>
                    ELSE <<>>)
                      \o MessageOf(call.channel, call.hit, call.sha,
                                   call.nlines)

\* C16 witness: commit 1 is mentioned in t1; r1 is consulted and does not
\* have it, r2 has it and answers with the header and the message.
C16_Witness ==
    /\ call.op = "_snarf"
    /\ call.channel = "t1"
    /\ call.sha = 1
    /\ call.consulted = <<"r1", "r2">>
    /\ call.hit = "r2"
    /\ Len(reply) = 2
    /\ reply[1].kind = "talking"
    /\ reply[2].kind = "commit"

\* --------------------------------------------------------------------- C17
\* The kinds of line that carry commits or branches of a repository.
Revealing == {"commit", "talking", "pushed", "notice", "branches"}

\* Every such line of the call went to a channel of its repository.
ReplyConfined ==
    \A i \in 1..Len(reply) :
        reply[i].kind \in Revealing =>
            reply[i].to \in ChannelSet(reply[i].repo)

\* Every commit notified by a poll cycle went to a channel of its
\* repository.
PollConfined ==
    \A t \in Targets : \A r \in Repos : \A b \in BranchSet(r) :
        sent[t][r][b] # {} => t \in ChannelSet(r)

\* A repolog or branches command that came from a channel which is not one
\* of the repository's got no such line.
Refused ==
    (/\ call.op \in {"repolog", "branches"}
     /\ call.repo \in Repos
     /\ call.origin \notin ChannelSet(call.repo))
    => \A i \in 1..Len(reply) : reply[i].kind \notin Revealing

\* C17: commits and branches of a repository are sent only to channels of
\* its channel list, by poll cycles, inline mentions and commands alike,
\* and a repolog or branches command issued from another channel is
\* refused without such a line.
C17_ChannelConfinement == ReplyConfined /\ PollConfined /\ Refused

\* --------------------------------------------------------------------- C18
\* A section whose repository can be constructed.
ValidSection(options) == Repository_init(options) = "ok"

\* The registry holds the tracker of section number i.
Loaded(i) ==
    \E j \in 1..Len(call.repository_list) :
        call.repository_list[j].long_name = i

\* C18: after the configuration is read, every valid section has its
\* tracker in the registry, whether it stands before or after a section
\* that fails validation; only the failing sections are left out.
C18_ConfigErrorsIsolated ==
    call.op = "_read_config" =>
        \A i \in 1..Len(call.config) :
            Loaded(i) <=> ValidSection(call.config[i])

\* --------------------------------------------------------------------- C19
\* C19: the registry never holds two trackers with the same short name,
\* and so never two trackers with the same mirror path.
C19_ShortNamesUnique ==
    call.op = "_read_config" =>
        \A i, j \in 1..Len(call.repository_list) :
            i # j =>
                /\ call.repository_list[i].short_name
                       # call.repository_list[j].short_name
                /\ call.repository_list[i].path
                       # call.repository_list[j].path

\* --------------------------------------------------------------------- C20
\* The elements of a sequence.
Range(q) == {q[i] : i \in 1..Len(q)}

\* The remote branches that match at least one of the patterns.
Matching ==
    {b \in Range(call.repo_branches) :
        \E i \in 1..Len(call.branches_opt) :
            fnmatch(b, call.branches_opt[i])}

\* The tracked branches are exactly the matching ones.
ExactlyTheMatching == Range(call.branches) = Matching

\* No branch is tracked twice.
EachOnce ==
    \A i, j \in 1..Len(call.branches) :
        i # j => call.branches[i] # call.branches[j]

\* The patterns that match nothing are the ones logged, and no others.
UnmatchedOnlyLogged ==
    Range(call.warnings) =
        {call.branches_opt[i] : i \in
            {k \in 1..Len(call.branches_opt) :
                \A b \in Range(call.repo_branches) :
                    ~fnmatch(b, call.branches_opt[k])}}

\* C20: clone() tracks exactly the remote branches that match at least one
\* pattern, each of them once even when several patterns match it; a
\* pattern that matches nothing is only logged and the other patterns are
\* still resolved.
C20_BranchPatternResolution ==
    call.op = "clone" =>
        ExactlyTheMatching /\ EachOnce /\ UnmatchedOnlyLogged

\* The same without the requirement that no branch is tracked twice.
C20_AsSet ==
    call.op = "clone" => ExactlyTheMatching /\ UnmatchedOnlyLogged

\* --------------------------------------------------------------------- C21
\* Branch b of r has no cursor: its checkout failed in clone().
Untracked(r, b) == b \in BranchSet(r) /\ b \notin DOMAIN commit_by_branch[r]

\* An untracked branch is never diffed or notified.
UntrackedNeverNotified ==
    \A r \in Repos : \A b \in BranchSet(r) :
        Untracked(r, b) =>
            /\ \A t \in Targets : sent[t][r][b] = {}
            /\ pollPc = "display" /\ PollRepo = r
                   => b \notin DOMAIN new_commits_by_branch

\* An untracked branch is not fetched by the sweeps: the local copy still
\* has no such branch.
UntrackedNeverFetched ==
    \A r \in Repos : \A b \in BranchSet(r) :
        Untracked(r, b) => mirror[r][b] = None

\* C21: a branch whose checkout failed in clone() has no cursor, is never
\* diffed or notified, and is not fetched by the later sweeps of fetch().
C21_FailedBranchUntracked == UntrackedNeverNotified /\ UntrackedNeverFetched

\* --------------------------------------------------------------------- C22
\* The commits after the cursor up to the head, oldest first.
OldestFirst(r, b) ==
    [i \in 1..(mirror[r][b] - commit_by_branch[r][b]) |->
        commit_by_branch[r][b] + i]

\* The list of every branch holds exactly the commits after the cursor up
\* to the head, each once.
ExactRange ==
    \A b \in DOMAIN call.new_commits_by_branch :
        /\ Len(call.new_commits_by_branch[b])
               = mirror[call.repo][b] - commit_by_branch[call.repo][b]
        /\ Range(call.new_commits_by_branch[b])
               = (commit_by_branch[call.repo][b] + 1)..mirror[call.repo][b]

\* C22: get_new_commits() returns for every branch with a cursor exactly
\* the commits after the cursor up to the head, each once and oldest first,
\* so that the entries shown are the most recent min(K, maxCommitsAtOnce)
\* ones, the newest last.
C22_NewCommitsOldestFirst ==
    call.op = "get_new_commits" =>
        /\ DOMAIN call.new_commits_by_branch = BranchSet(call.repo)
        /\ ExactRange
        /\ \A b \in DOMAIN call.new_commits_by_branch :
            /\ call.new_commits_by_branch[b] = OldestFirst(call.repo, b)
            /\ LET K == Len(OldestFirst(call.repo, b))
                   n == Min(K, call.maxCommitsAtOnce)
               IN  call.shown[b]
                       = SubSeq(OldestFirst(call.repo, b), K - n + 1, K)

\* The same with API 0.1.x only, and the range as a set with any API.
C22_WithOldApi ==
    call.op = "get_new_commits" =>
        /\ ExactRange
        /\ call.GIT_API_VERSION = 1 => C22_NewCommitsOldestFirst

\* --------------------------------------------------------------------- C23
\* The line has no "%".
Plain(line) == \A i \in 1..Len(line) : line[i] # "%"

\* What "%" followed by c renders as, c being "%" or no key and not "(".
Escaped(c) == IF c = "%" THEN <<"%">> ELSE <<c>>

\* Line i renders as the claim says: unchanged when it has no "%"; when its
\* only "%" sequence is "%" followed by "%" or by a character that is
\* neither a key nor "(", that sequence becomes the one character.
RendersAsStated(i) ==
    LET line == call.lines[i]
    IN  /\ Plain(line) => call.result[i] = line
        /\ \A p \in 1..(Len(line) - 1) :
               (/\ line[p] = "%"
                /\ line[p + 1] \notin (SubstKeys \ {"%"}) \cup {"("}
                /\ Plain(SubSeq(line, 1, p - 1))
                /\ Plain(SubSeq(line, p + 2, Len(line))))
               => call.result[i] = SubSeq(line, 1, p - 1)
                                       \o Escaped(line[p + 1])
                                       \o SubSeq(line, p + 2, Len(line))

\* C23: format_message returns exactly one rendered unit per template
\* line, each line scanned from the normal mode; a line without "%" is
\* rendered unchanged, "%%" as one "%", and "%" followed by a character
\* that is neither a key nor "(" as that character.
C23_FormatterScanner ==
    call.op = "format_message" =>
        /\ call.raised = "none"
        /\ Len(call.result) = Len(call.lines)
        /\ \A i \in 1..Len(call.lines) : RendersAsStated(i)

\* The same for the templates made of ASCII characters only.
C23_OnAscii ==
    (/\ call.op = "format_message"
     /\ \A i \in 1..Len(call.commit_message) :
            call.commit_message[i] # "0xC3")
    => C23_FormatterScanner

\* --------------------------------------------------------------------- C24
\* A poll cycle begins.
CycleBegins == pollPc = "idle" /\ pollPc' # "idle"

\* A cycle begins only by running the pending event, which is then no
\* longer pending.
BeginsByEvent == CycleBegins => scheduled /\ ~scheduled'

\* An event added while a cycle goes on is added by the last step of the
\* cycle or by a rehash.
AddedAtEndOrByRehash ==
    (pollPc # "idle" /\ ~scheduled /\ scheduled')
        => \/ pollPc' = "idle" /\ rehashPc' = rehashPc
           \/ rehashPc = "schedule" /\ rehashPc' = "none" /\ pollPc' = pollPc

\* A cycle that has begun goes on or ends; it does not begin again.
NoSecondBeginning ==
    (pollPc # "idle" /\ pollPc' # "idle")
        => pollIdx' >= pollIdx

\* As stated: no poll event is pending while a cycle goes on.
C24_AsStated == pollPc # "idle" => ~scheduled

\* C24: poll cycles never overlap: a cycle begins only by running the one
\* pending event, the cycle itself schedules the next event only at its
\* end, and before that end only a rehash can schedule one.
C24_PollCyclesNeverOverlap ==
    [][BeginsByEvent /\ AddedAtEndOrByRehash /\ NoSecondBeginning]_vars

\* C24 witness: a rehash has returned while a poll cycle goes on, and the
\* event it has scheduled is pending.
C24_Witness ==
    /\ pollPc = "loop"
    /\ scheduled
    /\ rehashPc = "none"
    /\ generation > 1

\* --------------------------------------------------------------------- C26
\* rehash returns.
RehashReturns == rehashPc # "none" /\ rehashPc' = "none"

\* C26: whenever rehash returns while pollPeriod > 0, self.fetcher is a
\* live GitFetcher thread on the rebuilt registry and a poll event is
\* pending, whether or not _read_config raised.
C26_RehashRestartsPolling ==
    [][(RehashReturns /\ pollPeriod > 0) =>
           /\ fetcher' # 0
           /\ fetcher' = Len(swept')
           /\ fPc' \notin {"none", "done"}
           /\ swept'[fetcher'] = generation'
           /\ scheduled']_vars

\* --------------------------------------------------------------------- C27
\* The GitFetcher threads that are alive.
AliveThreads ==
    orphans \cup (IF fPc \in {"none", "done"} THEN {} ELSE {Len(swept)})

\* C27: at most one GitFetcher thread is alive at any time, a live one is
\* the one self.fetcher refers to or was told to stop, it sweeps the
\* current registry, and with pollPeriod = 0 none is ever started.
C27_AtMostOneFetcher ==
    /\ Cardinality(AliveThreads) <= 1
    /\ \A i \in AliveThreads :
           /\ swept[i] = generation
           /\ fetcher = i \/ (i = Len(swept) /\ shutdown)
    /\ pollPeriod = 0 => swept = <<>>


\* --------------------------------------------------------------------- C25
\* The commits a step moves the cursor of branch b of r past.
Passed(r, b) == (commit_by_branch[r][b] + 1)..commit_by_branch'[r][b]

\* A step of the poll cycle (not the rebuilding of the registry by rehash).
CycleStep == pollPc # "idle" /\ generation' = generation

CursorPassesOnlyDiffed ==
    \A r \in Repos : \A b \in BranchSet(r) :
        (CycleStep /\ commit_by_branch'[r][b] # commit_by_branch[r][b]) =>
            /\ r = PollRepo
            /\ b \in DOMAIN new_commits_by_branch
            /\ Passed(r, b) \subseteq new_commits_by_branch[b]

\* C25: whenever a step of a poll cycle moves the cursor of a branch, every
\* commit the cursor moves past is in the diff result get_new_commits() gave
\* that same cycle for the branch: no fetch moves a head of the local copy
\* between the diff and the advance.
C25_NoCommitSkipped == [][CursorPassesOnlyDiffed]_vars


\* --------------------------------------------------------------------- C28
\* The repositories whose lock thread t owns.
Held(t) == {r \in Repos : lock[r] = t}

HoldsAtMostOne == \A t \in Threads : Cardinality(Held(t)) <= 1

\* A loop that is about to call a synchronized method of the repository
\* whose lock it took gets in at once.
ReentrantCallsEnter ==
    /\ pollPc \in {"get_new_commits", "display"} =>
           lock[PollRepo] = "poll" /\ synchronized(PollRepo, "poll")
    /\ fPc = "fetch" =>
           lock[FetchRepo] = "fetcher" /\ synchronized(FetchRepo, "fetcher")

\* A step that moves a loop to its next repository, or ends the loop,
\* leaves the thread without any lock.
ReleasedBeforeMovingOn ==
    /\ (pollIdx' # pollIdx \/ pollPc' = "idle") => Held("poll")' = {}
    /\ (fIdx' # fIdx \/ fPc' \in {"wait", "done"}) => Held("fetcher")' = {}

EveryFetchReturns == [](fPc # "hung")

\* C28: no thread owns the locks of two repositories at once; the poll
\* cycle and the sweep, owning a repository's lock, enter that repository's
\* synchronized methods without waiting; a loop that goes on to the next
\* repository, whether the guarded work returned or raised, owns no lock;
\* and when no fetch hangs, every lock that is taken is free again later.
C28_LockDiscipline ==
    /\ [](HoldsAtMostOne /\ ReentrantCallsEnter)
    /\ [][ReleasedBeforeMovingOn]_vars
    /\ EveryFetchReturns =>
           \A r \in Repos : (lock[r] # "none") ~> (lock[r] = "none")

\* C28 witness: a fetch has raised and its lock was released, the poll
\* cycle has gone on from r1 and displays r2 under r2's lock while the
\* sweep is inside fetch() of r1.
C28_Witness ==
    /\ nextErr > 0
    /\ pollIdx = 2
    /\ pollPc = "display"
    /\ lock["r2"] = "poll"
    /\ fPc = "fetch"
    /\ lock["r1"] = "fetcher"
    /\ cmd = "none"

=============================================================================
